---- MODULE Spec2Model ----
(***************************************************************************)
(* Model of functionalities/plot.py: plot, plot_semi and plot_all.         *)
(*                                                                         *)
(* Python lists are TLA+ sequences; the code's 0-based index i is kept and *)
(* translated by At.  Metric values (floats in the program) are plotted as *)
(* given, so they are abstracted to integers that identify which log and   *)
(* which epoch a value comes from.  The charting library is modelled by    *)
(* what the code relies on: subplots' squeezed axes array, plot's          *)
(* equal-length check, and savefig writing one file.                       *)
(***************************************************************************)
EXTENDS Integers, Sequences, FiniteSets, TLC

VARIABLES
    dirExists,   \* os.path.exists("./plot")
    files,       \* the files under ./plot
    fn,          \* the rendering function running: "none", "plot", "plot_semi"
    pc,          \* its position
    args,        \* plot's parameters
    filename,    \* plot's local filename (line 60 rebinds it)
    num_train_sessions,
    i,           \* loop index of plot
    fig,         \* the figure being composed
    err,         \* the exception that ended the call, NoErr if none
    fs0,         \* the filesystem when the running call was entered
    rerun,       \* the running call repeats the previous call
    img_per_class,                 \* plot_semi's parameter
    semi_acc, semi_sup_acc,        \* plot_semi's locals of line 103
    acc, nin_acc,                  \* plot_semi's locals of lines 105-112
    apc,         \* plot_all's position
    ai,          \* plot_all's loop index
    semi,        \* plot_all's parameter
    loaded,      \* plot_all's locals: the records loaded so far
    log          \* the rendering calls plot_all has made, in order

vars == <<dirExists, files, fn, pc, args, filename, num_train_sessions, i, fig,
          err, fs0, rerun, img_per_class, semi_acc, semi_sup_acc, acc, nin_acc,
          apc, ai, semi, loaded, log>>

plotVars == <<args, filename, num_train_sessions, i>>
semiVars == <<img_per_class, semi_acc, semi_sup_acc, acc, nin_acc>>
allVars  == <<apc, ai, semi, loaded, log>>

----------------------------------------------------------------------------
(* Bounds of the explored inputs. *)
MaxSessions == 2
MaxEpochs == 2
MaxSemi == 2

----------------------------------------------------------------------------
(* Python values. *)

None == [isNone |-> TRUE, val |-> <<>>]
Some(v) == [isNone |-> FALSE, val |-> v]

\* lst[i] with a 0-based index
At(lst, k) == lst[k + 1]
\* lst[i] raises IndexError unless this holds
InRange(lst, k) == k >= 0 /\ k < Len(lst)
\* lst[-1]
Last(lst) == lst[Len(lst)]

\* list(range(1, n + 1))
EpochLst(n) == [k \in 1..n |-> k]

\* where a call is once an exception has left it: nothing in plot.py catches one
\* (variant: the exception is swallowed and the call goes on to save)
RaisedMut == "save"
Raised == "failed"

NoErr == [type |-> "none", line |-> 0, xlen |-> 0, ylen |-> 0]
Raise(t, l) == [type |-> t, line |-> l, xlen |-> 0, ylen |-> 0]
\* "x and y must have same first dimension, but have shapes (xlen,) and (ylen,)"
RaiseShape(l, x, y) == [type |-> "ValueError", line |-> l, xlen |-> Len(x), ylen |-> Len(y)]

----------------------------------------------------------------------------
(* The figure: plt.subplots and the Axes methods the code calls. *)

NewPanel == [lines |-> <<>>, points |-> <<>>, xlabel |-> "", ylabel |-> "",
             title |-> "", grid |-> FALSE, legend |-> FALSE]

NoFig == [shape |-> "none", nrows |-> 0, ncols |-> 0, panels |-> <<>>]

\* plt.subplots(nrows, ncols) with the default squeeze=True: a single Axes for
\* 1x1, a 1-D array when one dimension is 1, a 2-D array otherwise
SubplotsShape(nrows, ncols) ==
    IF nrows = 1 /\ ncols = 1 THEN "scalar"
    ELSE IF nrows = 1 \/ ncols = 1 THEN "1d"
    ELSE "2d"

Subplots(nrows, ncols) ==
    [shape |-> SubplotsShape(nrows, ncols), nrows |-> nrows, ncols |-> ncols,
     panels |-> [p \in (0..(nrows - 1)) \X (0..(ncols - 1)) |-> NewPanel]]

\* Axes.plot(x, y, ...) accepts only x and y of the same length
CanPlot(x, y) == Len(x) = Len(y)
AxPlot(panel, x, y, label, c) ==
    [panel EXCEPT !.lines = Append(@, [x |-> x, y |-> y, label |-> label, c |-> c])]
AxScatter(panel, x, y, c) ==
    [panel EXCEPT !.points = Append(@, [x |-> x, y |-> y, c |-> c])]
SetPanel(f, p, panel) == [f EXCEPT !.panels[p] = panel]

----------------------------------------------------------------------------
(* The filesystem under ./plot. *)

subdir == "./plot"
\* os.path.join(subdir, name) for a name that is a bare file name
PathJoin(dir, name) == dir \o "/" \o name
\* line 60
\* (variant: the spelling of the titles and the docstring)
ComparisonNameMut(stem) == stem \o "_comparision"
ComparisonName(stem) == stem \o "_comparison"
\* line 89: the path savefig is given
SavePath(name) == PathJoin(subdir, name \o ".png")
\* line 132
SemiPath == PathJoin(subdir, "Comparison Semi-supervised and supervised NIN.png")
\* savefig creates or overwrites one file
SaveFig(fs, path) == fs \cup {path}
\* (variant: the directory is never created)
EnsureDirMut(exists) == exists
\* lines 86-87: the directory after "if not os.path.exists(subdir): os.makedirs(subdir)"
EnsureDir(exists) == IF ~exists THEN TRUE ELSE exists

----------------------------------------------------------------------------
(* plot, lines 7-91. *)

NoArgs == [title_lst |-> <<>>, loss_lst |-> <<>>, accuracy_lst |-> <<>>,
           filename |-> "", all_in_one |-> FALSE, max_accuracy |-> None,
           best_epoch |-> None, history |-> FALSE]

\* line 76
\* (variant: only best_epoch is tested)
MarkerRequestedMut(a) == ~a.best_epoch.isNone
MarkerRequested(a) == ~a.best_epoch.isNone /\ ~a.max_accuracy.isNone

\* lines 39-42 and 53-56
LossTitle(history) == IF history THEN "History of Loss" ELSE "Comparision of Losses"
AccTitle(history) == IF history THEN "History of Accuracies" ELSE "Comparision of Accuracies"

\* lines 27-30 and 62: count the sessions and create the axes
\* (a grid of zero rows is refused by subplots)
PlotSubplots ==
    /\ fn = "plot" /\ pc = "start"
    /\ num_train_sessions' = Len(args.loss_lst)
    /\ i' = 0
    /\ IF args.all_in_one
       THEN /\ fig' = Subplots(1, 2)
            /\ pc' = "overlay_loss"
            /\ err' = NoErr
       ELSE IF Len(args.loss_lst) < 1
       THEN /\ fig' = NoFig
            /\ pc' = Raised
            /\ err' = Raise("ValueError", 62)
       ELSE /\ fig' = Subplots(Len(args.loss_lst), 2)
            /\ pc' = "grid"
            /\ err' = NoErr
    /\ UNCHANGED <<dirExists, files, fn, args, filename, fs0, rerun>>
    /\ UNCHANGED semiVars /\ UNCHANGED allVars

\* lines 33-35: one iteration of the loss loop of overlay mode (ax[0])
OverlayLossLine ==
    /\ fn = "plot" /\ pc = "overlay_loss" /\ i < num_train_sessions
    /\ LET y == At(args.loss_lst, i)
           x == EpochLst(Len(y))
       IN IF ~InRange(args.title_lst, i)
          THEN /\ pc' = Raised /\ err' = Raise("IndexError", 35)
               /\ UNCHANGED <<fig, i>>
          ELSE /\ fig' = SetPanel(fig, <<0, 0>>,
                              AxPlot(fig.panels[<<0, 0>>], x, y, At(args.title_lst, i), "auto"))
               /\ i' = i + 1
               /\ UNCHANGED <<pc, err>>
    /\ UNCHANGED <<dirExists, files, fn, args, filename, num_train_sessions, fs0, rerun>>
    /\ UNCHANGED semiVars /\ UNCHANGED allVars

\* lines 37-44: the loss panel's labels, title, grid and legend
OverlayLossDone ==
    /\ fn = "plot" /\ pc = "overlay_loss" /\ i = num_train_sessions
    /\ fig' = SetPanel(fig, <<0, 0>>,
                 [fig.panels[<<0, 0>>] EXCEPT !.xlabel = "Epoch", !.ylabel = "Loss",
                     !.title = LossTitle(args.history), !.grid = TRUE, !.legend = TRUE])
    /\ i' = 0
    /\ pc' = "overlay_acc"
    /\ UNCHANGED <<dirExists, files, fn, args, filename, num_train_sessions, err, fs0, rerun>>
    /\ UNCHANGED semiVars /\ UNCHANGED allVars

\* line 49: the sequence drawn on ax[1] for session k
\* (variant: the loss loop copied without renaming the list)
OverlayAccSeqMut(a, k) == At(a.loss_lst, k)
OverlayAccSeq(a, k) == At(a.accuracy_lst, k)

\* lines 47-49: one iteration of the accuracy loop of overlay mode (ax[1])
OverlayAccLine ==
    /\ fn = "plot" /\ pc = "overlay_acc" /\ i < num_train_sessions
    /\ IF ~InRange(args.accuracy_lst, i)
       THEN /\ pc' = Raised /\ err' = Raise("IndexError", 48)
            /\ UNCHANGED <<fig, i>>
       ELSE LET y == OverlayAccSeq(args, i)
                x == EpochLst(Len(y))
            IN /\ fig' = SetPanel(fig, <<0, 1>>,
                              AxPlot(fig.panels[<<0, 1>>], x, y, At(args.title_lst, i), "auto"))
               /\ i' = i + 1
               /\ UNCHANGED <<pc, err>>
    /\ UNCHANGED <<dirExists, files, fn, args, filename, num_train_sessions, fs0, rerun>>
    /\ UNCHANGED semiVars /\ UNCHANGED allVars

\* lines 51-60: the accuracy panel's labels, title, grid and legend, and the suffix
OverlayAccDone ==
    /\ fn = "plot" /\ pc = "overlay_acc" /\ i = num_train_sessions
    /\ fig' = SetPanel(fig, <<0, 1>>,
                 [fig.panels[<<0, 1>>] EXCEPT !.xlabel = "Epoch", !.ylabel = "Accuracy",
                     !.title = AccTitle(args.history), !.grid = TRUE, !.legend = TRUE])
    /\ filename' = ComparisonName(filename)
    /\ pc' = "save"
    /\ UNCHANGED <<dirExists, files, fn, args, num_train_sessions, i, err, fs0, rerun>>
    /\ UNCHANGED semiVars /\ UNCHANGED allVars

\* lines 65-72: the loss panel of row r (ax[r, 0]); line 71 reads title_lst[r]
GridLossPanel(a, panel, r) ==
    LET y == At(a.loss_lst, r)
        x == EpochLst(Len(y))
        p1 == [AxPlot(panel, x, y, "", "b") EXCEPT !.xlabel = "Epoch", !.ylabel = "Loss"]
    IN IF ~InRange(a.title_lst, r)
       THEN [panel |-> p1, err |-> Raise("IndexError", 71)]
       ELSE [panel |-> [p1 EXCEPT !.title = "Loss of " \o At(a.title_lst, r), !.grid = TRUE],
             err |-> NoErr]

\* the x-values line 75 passes for the accuracy panel: epoch_lst of line 65
GridAccX(a, r) == EpochLst(Len(At(a.loss_lst, r)))

\* lines 75-81: the accuracy panel of row r (ax[r, 1])
GridAccPanel(a, panel, r) ==
    IF ~InRange(a.accuracy_lst, r)
    THEN [panel |-> panel, err |-> Raise("IndexError", 75)]
    ELSE LET y == At(a.accuracy_lst, r)
             x == GridAccX(a, r)
             p1 == AxPlot(panel, x, y, "", "b")
             p2 == IF MarkerRequested(a)
                   THEN AxScatter(p1, At(a.best_epoch.val, r), At(a.max_accuracy.val, r), "r")
                   ELSE p1
         IN IF ~CanPlot(x, y)
            THEN [panel |-> panel, err |-> RaiseShape(75, x, y)]
            ELSE IF MarkerRequested(a)
                    /\ (~InRange(a.best_epoch.val, r) \/ ~InRange(a.max_accuracy.val, r))
            THEN [panel |-> p1, err |-> Raise("IndexError", 77)]
            ELSE [panel |-> [p2 EXCEPT !.xlabel = "Epoch", !.ylabel = "Accuracy",
                                !.title = "Accuracy of " \o At(a.title_lst, r),
                                !.grid = TRUE],
                  err |-> NoErr]

\* lines 64-81: one iteration of the grid loop; ax[i, 0] needs a 2-D axes array
GridRow ==
    /\ fn = "plot" /\ pc = "grid" /\ i < num_train_sessions
    /\ IF fig.shape # "2d"
       THEN /\ pc' = Raised /\ err' = Raise("IndexError", 68)
            /\ UNCHANGED <<fig, i>>
       ELSE LET lo == GridLossPanel(args, fig.panels[<<i, 0>>], i)
                f1 == SetPanel(fig, <<i, 0>>, lo.panel)
            IN IF lo.err # NoErr
               THEN /\ pc' = Raised /\ err' = lo.err /\ fig' = f1 /\ UNCHANGED i
               ELSE LET ac == GridAccPanel(args, fig.panels[<<i, 1>>], i)
                        f2 == SetPanel(f1, <<i, 1>>, ac.panel)
                    IN IF ac.err # NoErr
                       THEN /\ pc' = Raised /\ err' = ac.err /\ fig' = f2 /\ UNCHANGED i
                       ELSE /\ fig' = f2 /\ i' = i + 1 /\ UNCHANGED <<pc, err>>
    /\ UNCHANGED <<dirExists, files, fn, args, filename, num_train_sessions, fs0, rerun>>
    /\ UNCHANGED semiVars /\ UNCHANGED allVars

\* line 64: the grid loop ends
GridDone ==
    /\ fn = "plot" /\ pc = "grid" /\ i = num_train_sessions
    /\ pc' = "save"
    /\ UNCHANGED <<dirExists, files, fn, args, filename, num_train_sessions, i, fig, err,
                   fs0, rerun>>
    /\ UNCHANGED semiVars /\ UNCHANGED allVars

\* lines 83-91: tight_layout, create ./plot if absent, savefig, show
PlotSave ==
    /\ fn = "plot" /\ pc = "save"
    /\ dirExists' = EnsureDir(dirExists)
    /\ files' = SaveFig(files, SavePath(filename))
    /\ pc' = "done"
    /\ UNCHANGED <<fn, args, filename, num_train_sessions, i, fig, err, fs0, rerun>>
    /\ UNCHANGED semiVars /\ UNCHANGED allVars

----------------------------------------------------------------------------
(* The metric store: fm.load_variable returns the tuple persisted under a  *)
(* name, or fails when nothing is persisted.  The sampled contents follow. *)

\* the log of one training session: n epochs, values that name kind, session, epoch
MetricLog(kind, j, n) == [e \in 1..n |-> 1000 * kind + 100 * j + e]
\* a list of k such logs
MetricLogs(kind, k, n) == [j \in 1..k |-> MetricLog(kind, j - 1, n)]

Missing == [ok |-> FALSE, val |-> <<>>]
Stored(t) == [ok |-> TRUE, val |-> t]

\* "semi-supervised": (semi_loss, semi_acc, semi_sup_loss, semi_sup_acc), line 150
SemiTuple(k, n, m) ==
    <<MetricLogs(1, k, n), MetricLogs(2, k, n), MetricLogs(3, k, m), MetricLogs(4, k, m)>>
SemiStored == {Stored(SemiTuple(k, n, m)) : k \in 0..MaxSemi, n \in 0..MaxEpochs, m \in 0..MaxEpochs}

\* the last accuracy of every session, lines 105-112
\* (variant: the first accuracy instead of the last)
FinalAccuraciesMut(lst) == [j \in 1..Len(lst) |-> Head(lst[j])]
FinalAccuracies(lst) == [j \in 1..Len(lst) |-> Last(lst[j])]
\* acc_lst[-1] raises IndexError on an empty log
HasEmptyLog(lst) == \E j \in 1..Len(lst) : Len(lst[j]) = 0
\* line 116: list(10 * np.array(img_per_class))
NumImg(img) == [j \in 1..Len(img) |-> 10 * img[j]]

----------------------------------------------------------------------------
(* plot_semi, lines 94-134. *)

\* what fm.load_variable("semi-supervised") can return at line 103: the store is
\* never written here, so inside plot_all it is what line 150 returned
SemiLoadResults ==
    IF apc # "idle" /\ Len(loaded) >= 5 THEN {loaded[5]} ELSE SemiStored \cup {Missing}

\* line 103: "_, semi_acc, _, semi_sup_acc = ..."
UnpackSemiAcc(t) == t[2]
UnpackSemiSupAcc(t) == t[4]

\* lines 103-112: load the record and take every final accuracy
SemiLoad ==
    /\ fn = "plot_semi" /\ pc = "s_load"
    /\ \E r \in SemiLoadResults :
        IF ~r.ok
        THEN /\ pc' = Raised /\ err' = Raise("LoadError", 103)
             /\ UNCHANGED <<semi_acc, semi_sup_acc, acc, nin_acc>>
        ELSE /\ semi_acc' = UnpackSemiAcc(r.val)
             /\ semi_sup_acc' = UnpackSemiSupAcc(r.val)
             /\ IF HasEmptyLog(UnpackSemiAcc(r.val))
                THEN /\ pc' = Raised /\ err' = Raise("IndexError", 109)
                     /\ UNCHANGED <<acc, nin_acc>>
                ELSE IF HasEmptyLog(UnpackSemiSupAcc(r.val))
                THEN /\ pc' = Raised /\ err' = Raise("IndexError", 112)
                     /\ acc' = FinalAccuracies(UnpackSemiAcc(r.val))
                     /\ UNCHANGED nin_acc
                ELSE /\ acc' = FinalAccuracies(UnpackSemiAcc(r.val))
                     /\ nin_acc' = FinalAccuracies(UnpackSemiSupAcc(r.val))
                     /\ pc' = "s_compose"
                     /\ UNCHANGED err
    /\ UNCHANGED <<dirExists, files, fn, fig, fs0, rerun, img_per_class>>
    /\ UNCHANGED plotVars /\ UNCHANGED allVars

\* lines 114-126: one panel with the two lines
SemiCompose ==
    /\ fn = "plot_semi" /\ pc = "s_compose"
    /\ LET f0 == Subplots(1, 1)
           num_img == NumImg(img_per_class)
           p1 == AxPlot(f0.panels[<<0, 0>>], num_img, acc, "semi-supervised", "auto")
           p2 == AxPlot(p1, num_img, nin_acc, "supervised NIN", "auto")
           p3 == [p2 EXCEPT !.xlabel = "Number of Images used for Training",
                            !.ylabel = "Accuracy",
                            !.title = "Comparison Semi-supervised and supervised NIN",
                            !.grid = TRUE, !.legend = TRUE]
       IN IF ~CanPlot(num_img, acc)
          THEN /\ pc' = Raised /\ err' = RaiseShape(118, num_img, acc) /\ fig' = f0
          ELSE IF ~CanPlot(num_img, nin_acc)
          THEN /\ pc' = Raised /\ err' = RaiseShape(119, num_img, nin_acc)
               /\ fig' = SetPanel(f0, <<0, 0>>, p1)
          ELSE /\ pc' = "s_save" /\ fig' = SetPanel(f0, <<0, 0>>, p3) /\ UNCHANGED err
    /\ UNCHANGED <<dirExists, files, fn, fs0, rerun>>
    /\ UNCHANGED semiVars /\ UNCHANGED plotVars /\ UNCHANGED allVars

\* lines 128-134: create ./plot if absent, savefig under the fixed name, show
SemiSave ==
    /\ fn = "plot_semi" /\ pc = "s_save"
    /\ dirExists' = EnsureDir(dirExists)
    /\ files' = SaveFig(files, SemiPath)
    /\ pc' = "done"
    /\ UNCHANGED <<fn, fig, err, fs0, rerun>>
    /\ UNCHANGED semiVars /\ UNCHANGED plotVars /\ UNCHANGED allVars

----------------------------------------------------------------------------
(* plot_all, lines 137-200. *)

\* lines 146-150: the names loaded, in order
\* (variant: the semi-supervised record is not loaded up front)
RecordNamesMut == <<"3_block_net", "4_block_net", "5_block_net", "supervised_NIN">>
RecordNames == <<"3_block_net", "4_block_net", "5_block_net", "supervised_NIN",
                 "semi-supervised">>

\* range(3, 6) of lines 165 and 176
FirstDepth == 3
LastDepth == 5

\* an "<d>_block_net" record: (rot_loss, rot_acc, clf_loss, clf_acc, conv_loss, conv_acc)
\* with k classifier sessions of n epochs
BlockTuple(d, k, n) ==
    <<MetricLog(1, d, n), MetricLog(2, d, n), MetricLogs(3, k, n), MetricLogs(4, k, n),
      MetricLogs(5, k, n), MetricLogs(6, k, n)>>
\* "supervised_NIN": (super_loss, super_acc)
SuperTuple(n) == <<MetricLog(1, 0, n), MetricLog(2, 0, n)>>

\* the sampled contents of the store under the k-th name
StoredSamples(k) ==
    CASE k = 1 -> {Stored(BlockTuple(3, 3, MaxEpochs))}
      [] k = 2 -> {Stored(BlockTuple(4, 4, MaxEpochs)), Stored(BlockTuple(4, 1, MaxEpochs))}
      [] k = 3 -> {Stored(BlockTuple(5, 5, MaxEpochs))}
      [] k = 4 -> {Stored(SuperTuple(MaxEpochs))}
      [] OTHER -> {Stored(SemiTuple(j, MaxEpochs, MaxEpochs)) : j \in 0..MaxSemi}

\* lines 155-156, 168, 179, 191-192: the titles
RotTitles == [d \in 1..3 |-> "Rotation Task of " \o ToString(d + 2) \o " Block RotNet"]
ClfTitles(d) == [j \in 1..d |-> "Non-Linear Classifier trained on ConvBlock " \o ToString(j)]
ConvTitles(d) == [j \in 1..d |-> "ConvClassifier trained on ConvBlock " \o ToString(j)]
SemiTitles(num_img) == <<"Semi-supervised " \o ToString(num_img) \o " images per class",
                         "Supervised NIN " \o ToString(num_img) \o " images per class">>
\* lines 159, 169, 180, 186, 193: the file name stems
RotFilename == "Rotation Task"
ClfFilename(d) == "Non-Linear Classifier and " \o ToString(d) \o " Block RotNet"
ConvFilename(d) == "Convolutional Classifier and " \o ToString(d) \o " Block RotNet"
SuperFilename == "Supervised NIN"
SemiFilename(num_img) == "Semi-supervised Learning " \o ToString(num_img)

\* the loaded tuple of depth d, and its fields
Block(d) == loaded[d - 2].val
\* lines 157-158
RotLoss == <<Block(3)[1], Block(4)[1], Block(5)[1]>>
RotAcc == <<Block(3)[2], Block(4)[2], Block(5)[2]>>
\* lines 163-164 and 174-175, indexed by i - 3
ClfLoss(d) == Block(d)[3]
ClfAcc(d) == Block(d)[4]
ConvLoss(d) == Block(d)[5]
ConvAcc(d) == Block(d)[6]

PlotArgs(titles, loss, accuracy, name, all_in_one, history) ==
    [title_lst |-> titles, loss_lst |-> loss, accuracy_lst |-> accuracy,
     filename |-> name, all_in_one |-> all_in_one, max_accuracy |-> None,
     best_epoch |-> None, history |-> history]

\* entering plot: bind the parameters
EnterPlot(a) ==
    /\ fn' = "plot" /\ pc' = "start"
    /\ args' = a /\ filename' = a.filename
    /\ num_train_sessions' = 0 /\ i' = 0
    /\ fig' = NoFig /\ err' = NoErr
    /\ fs0' = [dir |-> dirExists, files |-> files]
    /\ UNCHANGED <<dirExists, files>>
    /\ UNCHANGED semiVars

\* entering plot_semi: bind the parameter
EnterPlotSemi(img) ==
    /\ fn' = "plot_semi" /\ pc' = "s_load"
    /\ img_per_class' = img
    /\ semi_acc' = <<>> /\ semi_sup_acc' = <<>> /\ acc' = <<>> /\ nin_acc' = <<>>
    /\ fig' = NoFig /\ err' = NoErr
    /\ fs0' = [dir |-> dirExists, files |-> files]
    /\ UNCHANGED <<dirExists, files>>
    /\ UNCHANGED plotVars

LogEntry(f, name, all_in_one, history) ==
    [fn |-> f, filename |-> name, all_in_one |-> all_in_one, history |-> history]

\* a call of plot from plot_all
AllCallPlot(a) ==
    /\ EnterPlot(a)
    /\ rerun' = FALSE
    /\ log' = Append(log, LogEntry("plot", a.filename, a.all_in_one, a.history))
    /\ UNCHANGED <<apc, ai, semi, loaded>>

\* lines 146-150: one load; a failed load ends plot_all
AllLoad ==
    /\ apc = "load" /\ fn = "none"
    /\ \E r \in StoredSamples(Len(loaded) + 1) \cup {Missing} :
        IF ~r.ok
        THEN /\ apc' = "failed" /\ err' = Raise("LoadError", 146 + Len(loaded))
             /\ UNCHANGED loaded
        ELSE /\ loaded' = Append(loaded, r)
             /\ apc' = IF Len(loaded) + 1 = Len(RecordNames) THEN "rot_grid" ELSE "load"
             /\ UNCHANGED err
    /\ UNCHANGED <<dirExists, files, fn, pc, fig, fs0, rerun, ai, semi, log>>
    /\ UNCHANGED plotVars /\ UNCHANGED semiVars

\* line 159
AllRotGrid ==
    /\ apc = "rot_grid" /\ fn = "none"
    /\ AllCallPlot(PlotArgs(RotTitles, RotLoss, RotAcc, RotFilename, FALSE, FALSE))

\* line 160
AllRotOverlay ==
    /\ apc = "rot_overlay" /\ fn = "none"
    /\ AllCallPlot(PlotArgs(RotTitles, RotLoss, RotAcc, RotFilename, TRUE, FALSE))

\* line 169
AllClfGrid ==
    /\ apc = "clf_grid" /\ fn = "none"
    /\ AllCallPlot(PlotArgs(ClfTitles(ai), ClfLoss(ai), ClfAcc(ai), ClfFilename(ai), FALSE, FALSE))

\* lines 170-171
AllClfOverlay ==
    /\ apc = "clf_overlay" /\ fn = "none"
    /\ AllCallPlot(PlotArgs(ClfTitles(ai), ClfLoss(ai), ClfAcc(ai), ClfFilename(ai), TRUE, FALSE))

\* line 180
AllConvGrid ==
    /\ apc = "conv_grid" /\ fn = "none"
    /\ AllCallPlot(PlotArgs(ConvTitles(ai), ConvLoss(ai), ConvAcc(ai), ConvFilename(ai), FALSE, FALSE))

\* lines 181-182
AllConvOverlay ==
    /\ apc = "conv_overlay" /\ fn = "none"
    /\ AllCallPlot(PlotArgs(ConvTitles(ai), ConvLoss(ai), ConvAcc(ai), ConvFilename(ai), TRUE, FALSE))

\* line 186
AllSuper ==
    /\ apc = "super" /\ fn = "none"
    /\ AllCallPlot(PlotArgs(<<"Supervised NIN">>, <<loaded[4].val[1]>>, <<loaded[4].val[2]>>,
                            SuperFilename, TRUE, TRUE))

\* lines 195-197: semi_loss[i], semi_sup_loss[i], semi_acc[i], semi_sup_acc[i] exist
SemiIndexable(t, k) ==
    InRange(t[1], k) /\ InRange(t[3], k) /\ InRange(t[2], k) /\ InRange(t[4], k)
SemiArgs(t, k, num_img, all_in_one) ==
    PlotArgs(SemiTitles(num_img), <<At(t[1], k), At(t[3], k)>>, <<At(t[2], k), At(t[4], k)>>,
             SemiFilename(num_img), all_in_one, FALSE)

\* line 195
AllSemiGrid ==
    /\ apc = "semi_grid" /\ fn = "none"
    /\ IF SemiIndexable(loaded[5].val, ai)
       THEN AllCallPlot(SemiArgs(loaded[5].val, ai, At(semi.val, ai), FALSE))
       ELSE /\ apc' = "failed" /\ err' = Raise("IndexError", 195)
            /\ UNCHANGED <<dirExists, files, fn, pc, fig, fs0, rerun, ai, semi, loaded, log>>
            /\ UNCHANGED plotVars /\ UNCHANGED semiVars

\* lines 196-197
AllSemiOverlay ==
    /\ apc = "semi_overlay" /\ fn = "none"
    /\ AllCallPlot(SemiArgs(loaded[5].val, ai, At(semi.val, ai), TRUE))

\* line 200
AllPlotSemi ==
    /\ apc = "semi_final" /\ fn = "none"
    /\ EnterPlotSemi(semi.val)
    /\ rerun' = FALSE
    /\ log' = Append(log, LogEntry("plot_semi", "", FALSE, FALSE))
    /\ UNCHANGED <<apc, ai, semi, loaded>>

\* line 189: "if semi is not None", then the loop of line 190 or line 200
\* (variant: the sweep is not guarded by the test of semi)
AfterSuperMut(sm) ==
    IF Len(sm.val) > 0 THEN [apc |-> "semi_grid", ai |-> 0]
    ELSE [apc |-> "semi_final", ai |-> 0]
AfterSuper(sm) ==
    IF sm.isNone THEN [apc |-> "done", ai |-> 0]
    ELSE IF Len(sm.val) > 0 THEN [apc |-> "semi_grid", ai |-> 0]
    ELSE [apc |-> "semi_final", ai |-> 0]

\* the statement that follows the call at site s with loop index k
NextSite(s, k, sm) ==
    CASE s = "rot_grid" -> [apc |-> "rot_overlay", ai |-> k]
      [] s = "rot_overlay" -> [apc |-> "clf_grid", ai |-> FirstDepth]
      [] s = "clf_grid" -> [apc |-> "clf_overlay", ai |-> k]
      [] s = "clf_overlay" -> IF k < LastDepth THEN [apc |-> "clf_grid", ai |-> k + 1]
                              ELSE [apc |-> "conv_grid", ai |-> FirstDepth]
      [] s = "conv_grid" -> [apc |-> "conv_overlay", ai |-> k]
      [] s = "conv_overlay" -> IF k < LastDepth THEN [apc |-> "conv_grid", ai |-> k + 1]
                               ELSE [apc |-> "super", ai |-> 0]
      [] s = "super" -> AfterSuper(sm)
      [] s = "semi_grid" -> [apc |-> "semi_overlay", ai |-> k]
      [] s = "semi_overlay" -> IF k + 1 < Len(sm.val) THEN [apc |-> "semi_grid", ai |-> k + 1]
                               ELSE [apc |-> "semi_final", ai |-> 0]
      [] OTHER -> [apc |-> "done", ai |-> 0]

InPlotAll == apc \notin {"idle", "done", "failed"}

\* a rendering call returns to plot_all, which goes on with the next statement
AllReturn ==
    /\ InPlotAll /\ fn # "none" /\ pc = "done"
    /\ fn' = "none" /\ pc' = "idle"
    /\ apc' = NextSite(apc, ai, semi).apc
    /\ ai' = NextSite(apc, ai, semi).ai
    /\ UNCHANGED <<dirExists, files, fig, err, fs0, rerun, semi, loaded, log>>
    /\ UNCHANGED plotVars /\ UNCHANGED semiVars

\* an exception of a rendering call is not caught: it ends plot_all
AllPropagate ==
    /\ InPlotAll /\ fn # "none" /\ pc = "failed"
    /\ apc' = "failed"
    /\ UNCHANGED <<dirExists, files, fn, pc, fig, err, fs0, rerun, ai, semi, loaded, log>>
    /\ UNCHANGED plotVars /\ UNCHANGED semiVars

----------------------------------------------------------------------------
(* The caller: one call of plot, plot_semi or plot_all with sampled        *)
(* arguments, and the same rendering call made again after it returned.    *)

Stems == {"A", "B"}
SampleTitles(n) == [j \in 1..n |-> "T" \o ToString(j)]
\* loss logs of n sessions with the epoch counts L
SampleLoss(n, L) == [j \in 1..n |-> MetricLog(1, j - 1, L[j])]
\* the accuracy logs: as long as the loss logs, or session m one epoch shorter
SampleAcc(n, L, m) == [j \in 1..n |-> MetricLog(2, j - 1, IF j = m THEN L[j] - 1 ELSE L[j])]
\* the first n entries of a list of k (a list that is too short when n < k)
Shorter(lst, n) == SubSeq(lst, 1, n)
Lengths(n) == IF n = 0 THEN {0} ELSE {n - 1, n}
\* marker coordinates for k rows
SampleBestEpoch(k) == [j \in 1..k |-> 1]
SampleMaxAccuracy(k) == [j \in 1..k |-> 2000 + 100 * (j - 1) + 1]
MarkerChoices(n) ==
    {None} \cup {Some(SampleBestEpoch(k)) : k \in Lengths(n)}
MaxAccChoices(n) ==
    {None} \cup {Some(SampleMaxAccuracy(k)) : k \in Lengths(n)}

\* the sampled calls of n sessions with epoch counts L: the parallel lists complete
\* and no marker (any mode, any history flag, accuracy log m one epoch shorter), ...
WellFormedInputs(n, L) ==
    { [title_lst |-> SampleTitles(n), loss_lst |-> SampleLoss(n, L),
       accuracy_lst |-> SampleAcc(n, L, m),
       filename |-> stem, all_in_one |-> md, history |-> h,
       best_epoch |-> None, max_accuracy |-> None] :
        m \in 0..n, stem \in Stems, md \in BOOLEAN, h \in BOOLEAN }
\* ... title_lst or accuracy_lst one entry short, ...
ShortListInputs(n, L) ==
    { [title_lst |-> SampleTitles(ln[1]), loss_lst |-> SampleLoss(n, L),
       accuracy_lst |-> Shorter(SampleAcc(n, L, 0), ln[2]),
       filename |-> stem, all_in_one |-> md, history |-> FALSE,
       best_epoch |-> None, max_accuracy |-> None] :
        ln \in (IF n = 0 THEN {} ELSE {<<n - 1, n>>, <<n, n - 1>>}),
        stem \in Stems, md \in BOOLEAN }
\* ... and marker lists given, complete or one entry short
MarkerInputs(n, L) ==
    { [title_lst |-> SampleTitles(n), loss_lst |-> SampleLoss(n, L),
       accuracy_lst |-> SampleAcc(n, L, 0),
       filename |-> stem, all_in_one |-> md, history |-> FALSE,
       best_epoch |-> b, max_accuracy |-> mx] :
        b \in MarkerChoices(n), mx \in MaxAccChoices(n), stem \in Stems,
        md \in BOOLEAN }

PlotInputs ==
    UNION { UNION {
        WellFormedInputs(n, L) \cup ShortListInputs(n, L) \cup MarkerInputs(n, L)
        : L \in [1..n -> 1..MaxEpochs] } : n \in 0..MaxSessions }

\* img_per_class of k entries
SampleImg(k) == [j \in 1..k |-> 20 * j]
SemiInputs == {SampleImg(k) : k \in 0..MaxSemi}

AtMain == fn = "none" /\ apc = "idle"

CallPlot ==
    /\ AtMain
    /\ \E a \in PlotInputs : EnterPlot(a)
    /\ rerun' = FALSE
    /\ UNCHANGED allVars

CallPlotSemi ==
    /\ AtMain
    /\ \E img \in SemiInputs : EnterPlotSemi(img)
    /\ rerun' = FALSE
    /\ UNCHANGED allVars

\* line 137: semi is None or a list
CallPlotAll ==
    /\ AtMain
    /\ \E sm \in {None} \cup {Some(img) : img \in SemiInputs} : semi' = sm
    /\ apc' = "load" /\ ai' = 0 /\ loaded' = <<>> /\ log' = <<>>
    /\ fs0' = [dir |-> dirExists, files |-> files]
    /\ UNCHANGED <<dirExists, files, fn, pc, fig, err, rerun>>
    /\ UNCHANGED plotVars /\ UNCHANGED semiVars

\* the same call of plot once more
RerunPlot ==
    /\ apc = "idle" /\ fn = "plot" /\ pc = "done"
    /\ EnterPlot(args)
    /\ rerun' = TRUE
    /\ UNCHANGED allVars

\* the same call of plot_semi once more (the store is unchanged)
RerunPlotSemi ==
    /\ apc = "idle" /\ fn = "plot_semi" /\ pc = "done"
    /\ EnterPlotSemi(img_per_class)
    /\ rerun' = TRUE
    /\ UNCHANGED allVars

----------------------------------------------------------------------------

\* a file of an earlier run that no call of the model writes
OtherFile == PathJoin(subdir, "old.png")

Init ==
    /\ dirExists \in BOOLEAN
    /\ files \in (IF dirExists THEN {{}, {OtherFile}} ELSE {{}})
    /\ fn = "none" /\ pc = "idle"
    /\ args = NoArgs /\ filename = "" /\ num_train_sessions = 0 /\ i = 0
    /\ fig = NoFig /\ err = NoErr
    /\ fs0 = [dir |-> dirExists, files |-> files]
    /\ rerun = FALSE
    /\ img_per_class = <<>> /\ semi_acc = <<>> /\ semi_sup_acc = <<>>
    /\ acc = <<>> /\ nin_acc = <<>>
    /\ apc = "idle" /\ ai = 0 /\ semi = None /\ loaded = <<>> /\ log = <<>>

Next ==
    \/ CallPlot \/ RerunPlot
    \/ PlotSubplots \/ OverlayLossLine \/ OverlayLossDone \/ OverlayAccLine
    \/ OverlayAccDone \/ GridRow \/ GridDone \/ PlotSave
    \/ CallPlotSemi \/ RerunPlotSemi
    \/ SemiLoad \/ SemiCompose \/ SemiSave
    \/ CallPlotAll
    \/ AllLoad \/ AllRotGrid \/ AllRotOverlay \/ AllClfGrid \/ AllClfOverlay
    \/ AllConvGrid \/ AllConvOverlay \/ AllSuper \/ AllSemiGrid \/ AllSemiOverlay
    \/ AllPlotSemi \/ AllReturn \/ AllPropagate

Spec == Init /\ [][Next]_vars

----------------------------------------------------------------------------
(* Properties. *)

InPlot == fn = "plot"
GridCall == InPlot /\ ~args.all_in_one
OverlayCall == InPlot /\ args.all_in_one
NSessions == Len(args.loss_lst)
Unchanged == files = fs0.files /\ dirExists = fs0.dir

\* title_lst and accuracy_lst are as long as loss_lst
ParallelLists == Len(args.title_lst) = NSessions /\ Len(args.accuracy_lst) = NSessions
\* every session has as many accuracies as losses
EqualEpochs ==
    \A j \in 1..NSessions : Len(args.accuracy_lst[j]) = Len(args.loss_lst[j])
\* the marker lists are absent or have an entry for every row
MarkersComplete ==
    /\ args.best_epoch.isNone \/ Len(args.best_epoch.val) >= NSessions
    /\ args.max_accuracy.isNone \/ Len(args.max_accuracy.val) >= NSessions
\* the sequences drawn on a panel, in the order drawn
Drawn(p) == [j \in 1..Len(fig.panels[p].lines) |-> fig.panels[p].lines[j].y]
\* the rows of the grid the loop has finished
RowsComposed == IF pc \in {"grid", "failed"} THEN i ELSE NSessions
\* the rows of the grid the loop has finished or failed in
RowsStarted == IF pc = "failed" /\ fig.shape = "2d" THEN i + 1 ELSE RowsComposed

\* C1: a grid call with N >= 1 sessions and parallel lists completes, and its
\* figure has N rows of 2 panels, row i holding loss i on the left and accuracy i
\* on the right.
C1_GridRowsAndColumns ==
    (GridCall /\ NSessions >= 1 /\ ParallelLists /\ EqualEpochs /\ MarkersComplete)
    => /\ pc # "failed"
       /\ pc = "done" =>
            /\ fig.nrows = NSessions /\ fig.ncols = 2
            /\ \A r \in 0..(NSessions - 1) :
                 /\ Drawn(<<r, 0>>) = <<At(args.loss_lst, r)>>
                 /\ Drawn(<<r, 1>>) = <<At(args.accuracy_lst, r)>>

\* C2: an overlay call produces exactly 2 panels whatever N is; the first holds
\* the N loss sequences and the second the N accuracy sequences, line i labelled
\* title_lst[i].
C2_OverlayTwoPanels ==
    (OverlayCall /\ pc \in {"overlay_loss", "overlay_acc", "save", "done"})
    => /\ DOMAIN fig.panels = {<<0, 0>>, <<0, 1>>}
       /\ pc \in {"save", "done"} =>
            /\ Drawn(<<0, 0>>) = args.loss_lst
            /\ Drawn(<<0, 1>>) = args.accuracy_lst
            /\ \A p \in DOMAIN fig.panels : \A j \in 1..NSessions :
                 fig.panels[p].lines[j].label = args.title_lst[j]
C2_Witness ==
    OverlayCall /\ pc = "done" /\ NSessions = MaxSessions /\ NSessions >= 2

\* C3: on every panel the x-values are 1..L for the length L of the sequence
\* drawn on that panel: every line drawn has them, and in grid mode the accuracy
\* panel of every row the loop reaches gets accuracy sequence i at 1..len(accuracy i).
C3_XValuesFollowOwnSequence ==
    /\ InPlot =>
         \A p \in DOMAIN fig.panels : \A j \in 1..Len(fig.panels[p].lines) :
             fig.panels[p].lines[j].x = [e \in 1..Len(fig.panels[p].lines[j].y) |-> e]
    /\ (GridCall /\ NSessions >= 2 /\ ParallelLists /\ MarkersComplete
            /\ pc \in {"grid", "save", "done", "failed"})
       => \A r \in 0..(RowsStarted - 1) :
            /\ Len(fig.panels[<<r, 1>>].lines) = 1
            /\ fig.panels[<<r, 1>>].lines[1].y = At(args.accuracy_lst, r)
            /\ fig.panels[<<r, 1>>].lines[1].x = [e \in 1..Len(At(args.accuracy_lst, r)) |-> e]

\* C4 as claimed: row i gets a marker iff both lists have a value for row i, and
\* a row without one is drawn without marker, the call going on.
C4_MarkerPerRow ==
    (GridCall /\ NSessions >= 2 /\ ParallelLists /\ EqualEpochs
        /\ pc \in {"grid", "save", "done", "failed"})
    => /\ pc # "failed"
       /\ \A r \in 0..(RowsComposed - 1) :
            Len(fig.panels[<<r, 1>>].points) = 1
            <=> /\ ~args.best_epoch.isNone /\ InRange(args.best_epoch.val, r)
                /\ ~args.max_accuracy.isNone /\ InRange(args.max_accuracy.val, r)

\* C4 as amended: every composed row gets the marker (best_epoch[i], max_accuracy[i])
\* iff both lists are given to the call; with a list not given no row gets one and
\* line 77 cannot fail; with both given, a row that lacks an entry ends the call at
\* line 77, so a call that completes had an entry for every row.
C4_MarkerIffBothSupplied ==
    (GridCall /\ pc \in {"grid", "save", "done", "failed"})
    => LET both == ~args.best_epoch.isNone /\ ~args.max_accuracy.isNone
       IN /\ \A r \in 0..(RowsComposed - 1) :
               fig.panels[<<r, 1>>].points =
                   IF both THEN <<[x |-> At(args.best_epoch.val, r),
                                   y |-> At(args.max_accuracy.val, r), c |-> "r"]>>
                   ELSE <<>>
          /\ (pc = "failed" /\ err.line = 77)
               => both /\ (~InRange(args.best_epoch.val, i) \/ ~InRange(args.max_accuracy.val, i))
          /\ (pc = "done" /\ both)
               => Len(args.best_epoch.val) >= NSessions /\ Len(args.max_accuracy.val) >= NSessions
C4_Witness ==
    /\ GridCall /\ pc = "done" /\ NSessions >= 2
    /\ ~args.best_epoch.isNone /\ ~args.max_accuracy.isNone
    /\ \A r \in 0..(NSessions - 1) : Len(fig.panels[<<r, 1>>].points) = 1

C6_SaveIdempotent ==
    (fn \in {"plot", "plot_semi"} /\ pc = "done")
    => /\ dirExists
       /\ fs0.files \subseteq files
       /\ fn = "plot" => "./plot/" \o filename \o ".png" \in files
       /\ fn = "plot_semi" => "./plot/Comparison Semi-supervised and supervised NIN.png" \in files
       /\ rerun => fs0.dir /\ files = fs0.files
C6_Witness ==
    fn \in {"plot", "plot_semi"} /\ pc = "done" /\ rerun /\ OtherFile \in files

\* C7: plot_semi draws exactly two lines on its one panel: at index k, x is
\* 10 * img_per_class[k], the first line's y the last element of the k-th
\* semi-supervised accuracy sequence and the second's the last element of the k-th
\* supervised one; it writes exactly one file, of a fixed name.
C7_SemiChart ==
    (fn = "plot_semi" /\ pc \in {"s_save", "done"})
    => LET ls == fig.panels[<<0, 0>>].lines
       IN /\ DOMAIN fig.panels = {<<0, 0>>}
          /\ Len(ls) = 2
          /\ ls[1].label = "semi-supervised" /\ ls[2].label = "supervised NIN"
          /\ \A l \in 1..2 : Len(ls[l].x) = Len(img_per_class) /\ Len(ls[l].y) = Len(img_per_class)
          /\ \A k \in 1..Len(img_per_class) :
               /\ ls[1].x[k] = 10 * img_per_class[k] /\ ls[2].x[k] = 10 * img_per_class[k]
               /\ ls[1].y[k] = semi_acc[k][Len(semi_acc[k])]
               /\ ls[2].y[k] = semi_sup_acc[k][Len(semi_sup_acc[k])]
               /\ ls[1].y[k] \div 1000 = 2 /\ ls[2].y[k] \div 1000 = 4
          /\ pc = "done" =>
               files = fs0.files \cup {"./plot/Comparison Semi-supervised and supervised NIN.png"}
C7_Witness ==
    /\ fn = "plot_semi" /\ pc = "done" /\ Len(img_per_class) >= 2
    /\ Len(semi_acc[1]) >= 2 /\ apc = "idle"

\* the rendering calls of plot_all written out: (function, stem, all_in_one, history)
Call(name, all_in_one, history) ==
    [fn |-> "plot", filename |-> name, all_in_one |-> all_in_one, history |-> history]
FixedCalls ==
    <<Call("Rotation Task", FALSE, FALSE), Call("Rotation Task", TRUE, FALSE),
      Call("Non-Linear Classifier and 3 Block RotNet", FALSE, FALSE),
      Call("Non-Linear Classifier and 3 Block RotNet", TRUE, FALSE),
      Call("Non-Linear Classifier and 4 Block RotNet", FALSE, FALSE),
      Call("Non-Linear Classifier and 4 Block RotNet", TRUE, FALSE),
      Call("Non-Linear Classifier and 5 Block RotNet", FALSE, FALSE),
      Call("Non-Linear Classifier and 5 Block RotNet", TRUE, FALSE),
      Call("Convolutional Classifier and 3 Block RotNet", FALSE, FALSE),
      Call("Convolutional Classifier and 3 Block RotNet", TRUE, FALSE),
      Call("Convolutional Classifier and 4 Block RotNet", FALSE, FALSE),
      Call("Convolutional Classifier and 4 Block RotNet", TRUE, FALSE),
      Call("Convolutional Classifier and 5 Block RotNet", FALSE, FALSE),
      Call("Convolutional Classifier and 5 Block RotNet", TRUE, FALSE),
      Call("Supervised NIN", TRUE, TRUE)>>
\* the two calls of the k-th entry of semi, then the one call of plot_semi
SweepCalls(sm) ==
    [j \in 1..(2 * Len(sm)) |->
        Call("Semi-supervised Learning " \o ToString(sm[(j + 1) \div 2]), j % 2 = 0, FALSE)]
    \o <<[fn |-> "plot_semi", filename |-> "", all_in_one |-> FALSE, history |-> FALSE]>>
ExpectedCalls == IF semi.isNone THEN FixedCalls ELSE FixedCalls \o SweepCalls(semi.val)
IsPrefix(s, t) == Len(s) <= Len(t) /\ \A j \in 1..Len(s) : s[j] = t[j]

\* C8: plot_all makes its rendering calls in one fixed order: the 15 plot calls,
\* then with semi given a grid and an overlay call per entry and one final
\* plot_semi; with semi=None it makes exactly the 15 and no plot_semi.
C8_PlotAllSequence ==
    apc # "idle"
    => /\ IsPrefix(log, ExpectedCalls)
       /\ apc = "done" => log = ExpectedCalls
       /\ (apc = "done" /\ semi.isNone)
            => Len(log) = 15 /\ \A j \in 1..Len(log) : log[j].fn = "plot"
       /\ (apc = "done" /\ ~semi.isNone)
            => /\ Len(log) = 15 + 2 * Len(semi.val) + 1
               /\ \A j \in 1..Len(log) : log[j].fn = "plot_semi" <=> j = Len(log)
C8_Witness ==
    apc = "done" /\ ~semi.isNone /\ Len(semi.val) >= 2 /\ Len(log) = 15 + 2 * Len(semi.val) + 1

\* C9: in a call of plot the filesystem is untouched until every panel is
\* composed; a call in which composing raised does not complete, and leaves ./plot
\* and its files as they were when the call was entered.
C9_FailureLeavesFilesystem ==
    InPlot
    => /\ pc # "done" => Unchanged
       /\ err # NoErr => pc = "failed" /\ Unchanged
C9_Witness ==
    /\ InPlot /\ pc = "failed" /\ i >= 1 /\ err.type = "IndexError"
    /\ ~fs0.dir /\ ~dirExists

\* C10: plot_all loads all five records before its first rendering call, whatever
\* semi is; a failed load, the fifth with semi=None included, ends plot_all with
\* no rendering call made and the filesystem as it was.
C10_LoadsBeforeRendering ==
    apc # "idle"
    => /\ (log # <<>> \/ fn # "none" \/ apc \notin {"load", "failed"})
            => Len(loaded) = 5 /\ \A k \in 1..5 : loaded[k].ok
       /\ Len(loaded) < 5
            => /\ apc \in {"load", "failed"} /\ log = <<>> /\ fn = "none" /\ Unchanged
               /\ apc = "failed" => err.type = "LoadError" /\ err.line = 146 + Len(loaded)
C10_Witness ==
    apc = "failed" /\ Len(loaded) = 4 /\ semi.isNone /\ err.line = 150

====
